---- MODULE Spec2Model ----
(***************************************************************************)
(* Streaming relay of the product page analyzer.                           *)
(*                                                                         *)
(*   Spec    the orchestrator hop: router.post('/analyze/stream') of       *)
(*           MainService/src/routes/analyzer_secure.ts driving             *)
(*           AIClient.analyzeContentStream of services/aiClient.ts against *)
(*           an arbitrary inference producer and an arbitrary chunking.    *)
(*   SpecFE  the caller hop: the read loop of ApiService.analyzeUrlStream  *)
(*           of FrontendService/src/services/api.ts.                       *)
(*   SpecLines  the two readers applied to single lines, each line taken   *)
(*           from the bounded set CandidateLines.                          *)
(*                                                                         *)
(* Wire text is a sequence of one-character strings:                       *)
(*   "n"  the newline                                                      *)
(*   "d"  the six characters `data: `                                      *)
(*   "{"  the opening of a JSON object                                     *)
(*   a body character (BodyChars): the rest of a JSON object, which        *)
(*        determines the event it decodes to                               *)
(*   "x"  text that is not JSON                                            *)
(***************************************************************************)
EXTENDS Integers, Sequences, FiniteSets, TLC

\* Number of lines the inference producer writes in one session.
MaxLines == 3

\* Number of lines the orchestrator's response carries in one read session.
FeMaxLines == 3

\* Length of the lines handed to the two readers one at a time.
MaxLineLen == 3

\* Lines of the texts handed to parseAnalysis.
MaxTextLines == 4

\* Characters of the string field of an encoded event.
MaxFieldLen == 3

VARIABLES
  \* ---- orchestrator hop ----
  pc,                 \* position of the route handler
  apiKeySet,          \* process.env.AI_SERVICE_API_KEY is non-empty
  includeScreenshot,  \* req.body.includeScreenshot
  screenshotData,     \* screenshotData !== null
  headersSent,        \* res.writeHead was called
  sink,               \* events written to res while it was open
  resEnded,           \* res.end() was called
  lateWrites,         \* res.write calls made after res.end()
  httpErrorAttempted, \* res.status(500).json called after the headers were sent
  wire,               \* producer text not yet delivered to the data handler
  fed,                \* producer text delivered so far
  nLines,             \* lines the producer has written
  prodState,          \* "none" | "open" | "ended" | "errored"
  fullAnalysis,       \* let fullAnalysis of analyzeContentStream
  settled,            \* state of the promise returned by analyzeContentStream
  result,             \* text handed to parseAnalysis by the settling resolve
  rejectMsg,          \* message of the settling reject
  onChunkCalls,       \* every event passed to onChunk, in call order
  aiLog,              \* <<line, accepted>> for every line the data handler examined
  closedAt,           \* events written when the caller's connection closed, or -1
  analysisContent,    \* "none" | "plain" | "augmented": content sent to the inference backend
  completeShot,       \* the route's complete event carries a screenshot descriptor
  \* ---- caller hop ----
  fePc,               \* "reading" | "returned" | "threw"
  feWire,             \* response text not yet returned by reader.read()
  feFed,              \* response text read so far
  feN,                \* lines the response carries so far
  buffer,             \* let buffer of analyzeUrlStream
  feEvents,           \* every event passed to the caller's onChunk
  finalResult,        \* finalResult !== null
  feLog,              \* <<line, accepted>> for every line the read loop examined
  feJoined,           \* lines completed by a read later than the one that began them
  uiError,            \* App state error: the message shown, <<>> for null
  uiResult,           \* App state analysisResult !== null
  \* ---- parseAnalysis ----
  paPc,               \* "idle" | "input" | "parsed"
  paText,             \* argument analysisText
  paOut,              \* the AnalysisResult returned
  \* ---- event codec ----
  cdPc,               \* "idle" | "input" | "encoded" | "decoded"
  cdEvent,            \* the StreamEvent handed to res.write
  cdRecord,           \* the text written to the response
  cdDecoded,          \* the events the caller's read loop passed to onChunk
  \* ---- request validation ----
  vdPc,               \* "idle" | "input" | "limited" | "rejected" | "threw" | "handler" | "started"
  vdReq,              \* the request: route and req.body
  vdStatus,           \* HTTP status of the response, 0 while none is sent
  vdStarted,          \* SSE header written, or screenshot or inference begun
  \* ---- content extraction ----
  exPc,               \* position of the request that begins with a scrape
  exPath,             \* "frontend" (api.ts) | "legacy" (compiled analyzer.js)
  exReq,              \* the url and the includeScreenshot flag of the request
  exScrape,           \* what the scrape returned
  exErrors,           \* error outcomes: exceptions thrown to the page, error events
  exAnalysisRequests, \* requests sent to the analysis endpoint or the inference backend
  \* ---- fetches of a caller-supplied URL ----
  ftPc,               \* "idle" | "input" | "validated" | "done"
  ftReq,              \* route, host of the url, includeScreenshot
  ftStatus,           \* HTTP status answered before any fetch, 0 when none
  ftFetched,          \* the scraper or the screenshot browser requested the url
  \* ---- two concurrent streaming requests ----
  ssSent,             \* per request: chunks its producer delivered
  ssProdEnded,        \* per request: its producer's stream ended
  ssFull,             \* per accumulator: origin of every content appended
  ssSettled,          \* per request: "pending" | "resolved" | "rejected"
  ssResult,           \* per request: origins of the text of result.analysis
  ssSink,             \* per request: events written to its response
  ssEnded,            \* per request: res.end() called
  \* ---- ScreenshotService ----
  bwPc,               \* per call: "idle" | "launching" | "ready" | "done" | "failed"
  bwKind,             \* per call: "none" | "capture" | "health"
  bwBrowser,          \* static browser: the launch it came from, 0 for null
  bwLaunches,         \* calls of puppeteer.launch so far
  bwMine,             \* per call: the launch it awaits or awaited, 0 for none
  bwUsed,             \* per call: the browser getBrowser returned to it, 0 for none
  bwAlive,            \* launches that produced a browser
  \* ---- sanitization of req.body.content ----
  szPc,               \* "idle" | "input" | "rejected" | "stored" | "sent"
  szReq,              \* route and content of the request
  szStored,           \* req.body.content after the middleware
  szSent,             \* the content given to the inference backend
  \* ---- metadata of the result ----
  mdPc,               \* per request: "idle" | "input" | "answered"
  mdServer,           \* what the two requests share: route, content, flag, clock
  mdClient,           \* per request: the metadata member of its body
  mdOut               \* per request: the metadata object of its result

relayVars == <<pc, apiKeySet, includeScreenshot, screenshotData, headersSent,
               sink, resEnded, lateWrites, httpErrorAttempted, wire, fed,
               nLines, prodState, fullAnalysis, settled, result, rejectMsg,
               onChunkCalls, aiLog, closedAt, analysisContent, completeShot>>

feVars == <<fePc, feWire, feFed, feN, buffer, feEvents, finalResult, feLog,
            feJoined, uiError, uiResult>>

parseVars == <<paPc, paText, paOut>>

\* State of the functions that are exercised on their own.
codecVars == <<cdPc, cdEvent, cdRecord, cdDecoded>>

validateVars == <<vdPc, vdReq, vdStatus, vdStarted>>

extractVars == <<exPc, exPath, exReq, exScrape, exErrors, exAnalysisRequests>>

fetchVars == <<ftPc, ftReq, ftStatus, ftFetched>>

\* State of the models of what requests share: two streaming requests in
\* flight, the screenshot browser, the sanitization, the result metadata.
sessionVars == <<ssSent, ssProdEnded, ssFull, ssSettled, ssResult, ssSink,
                 ssEnded>>

browserVars == <<bwPc, bwKind, bwBrowser, bwLaunches, bwMine, bwUsed, bwAlive>>

sanitizeVars == <<szPc, szReq, szStored, szSent>>

metadataVars == <<mdPc, mdServer, mdClient, mdOut>>

serviceVars == <<sessionVars, browserVars, sanitizeVars, metadataVars>>

pureVars == <<parseVars, codecVars, validateVars, extractVars, fetchVars,
              serviceVars>>

vars == <<relayVars, feVars, pureVars>>

\* The AnalysisResult fields parseAnalysis computes (url is passed through).
NoResult == [analysis |-> <<>>, strengths |-> <<>>, weaknesses |-> <<>>,
             recommendations |-> <<>>]

ParseIdle == paPc = "idle" /\ paText = <<>> /\ paOut = NoResult

\* An event has a type and at most one string field.
NoEvent == [type |-> "none", fields |-> <<>>]

CodecIdle ==
  cdPc = "idle" /\ cdEvent = NoEvent /\ cdRecord = <<>> /\ cdDecoded = <<>>

NoRequest ==
  [route |-> "none", url |-> "missing", kind |-> "missing", len |-> 0,
   overLimit |-> FALSE]

ValidateIdle ==
  vdPc = "idle" /\ vdReq = NoRequest /\ vdStatus = 0 /\ vdStarted = FALSE

\* status is "network" when the request itself fails; len is the length
\* of the content member, -1 when the member is missing.
NoScrape == [status |-> "none", len |-> -1]

NoExtractRequest == [url |-> "missing", includeScreenshot |-> FALSE]

ExtractIdle ==
  /\ exPc = "idle" /\ exPath = "none" /\ exScrape = NoScrape
  /\ exReq = NoExtractRequest
  /\ exErrors = 0 /\ exAnalysisRequests = 0

NoFetchRequest == [route |-> "none", host |-> "missing", includeScreenshot |-> FALSE]

FetchIdle ==
  ftPc = "idle" /\ ftReq = NoFetchRequest /\ ftStatus = 0 /\ ftFetched = FALSE

SessionIds == {1, 2}

MaxCallers == 3

\* A content is a text followed by pad characters that belong to no
\* pattern of the sanitization.  An object is a function from the names of
\* its members to the JSON text of their values.
ServiceIdle ==
  /\ ssSent = [r \in SessionIds |-> 0]
  /\ ssProdEnded = [r \in SessionIds |-> FALSE]
  /\ ssFull = [r \in SessionIds |-> <<>>]
  /\ ssSettled = [r \in SessionIds |-> "pending"]
  /\ ssResult = [r \in SessionIds |-> <<>>]
  /\ ssSink = [r \in SessionIds |-> <<>>]
  /\ ssEnded = [r \in SessionIds |-> FALSE]
  /\ bwPc = [c \in 1 .. MaxCallers |-> "idle"]
  /\ bwKind = [c \in 1 .. MaxCallers |-> "none"]
  /\ bwBrowser = 0
  /\ bwLaunches = 0
  /\ bwMine = [c \in 1 .. MaxCallers |-> 0]
  /\ bwUsed = [c \in 1 .. MaxCallers |-> 0]
  /\ bwAlive = {}
  /\ szPc = "idle"
  /\ szReq = [route |-> "none", content |-> [text |-> <<>>, pad |-> 0]]
  /\ szStored = [text |-> <<>>, pad |-> 0]
  /\ szSent = [text |-> <<>>, pad |-> 0]
  /\ mdPc = [i \in 1 .. 2 |-> "idle"]
  /\ mdServer = [route |-> "none", length |-> "0",
                  includeScreenshot |-> "absent", now |-> "never"]
  /\ mdClient = [i \in 1 .. 2 |-> <<>>]
  /\ mdOut = [i \in 1 .. 2 |-> <<>>]

PureIdle ==
  /\ ParseIdle /\ CodecIdle /\ ValidateIdle /\ ExtractIdle /\ FetchIdle
  /\ ServiceIdle

----------------------------------------------------------------------------
(* Events and their wire text *)

BodyChars == {"P", "Q", "C", "R", "E", "S", "D"}

ParseError == [type |-> "ParseError", content |-> <<>>, src |-> "none"]

\* What JSON.parse returns for an object whose text is "{" followed by b.
EventOf(b) ==
  CASE b = "P" -> [type |-> "partial",  content |-> <<"a">>, src |-> "producer"]
    [] b = "Q" -> [type |-> "partial",  content |-> <<"b">>, src |-> "producer"]
    [] b = "C" -> [type |-> "complete", content |-> <<>>,    src |-> "producer"]
    [] b = "R" -> [type |-> "complete", content |-> <<"data">>, src |-> "producer"]
    [] b = "E" -> [type |-> "error",    content |-> <<"backend">>, src |-> "producer"]
    [] b = "S" -> [type |-> "status",   content |-> <<>>,    src |-> "producer"]
    [] b = "D" -> [type |-> "done",     content |-> <<>>,    src |-> "producer"]

\* An event the route synthesizes itself.
RouteEvent(t, c) == [type |-> t, content |-> c, src |-> "route"]

\* String.prototype.split('\n')
RECURSIVE SplitLines(_)
SplitLines(s) ==
  IF \A i \in 1..Len(s) : s[i] # "n"
    THEN <<s>>
    ELSE LET i == CHOOSE j \in 1..Len(s) :
                    s[j] = "n" /\ \A k \in 1..(j-1) : s[k] # "n"
         IN  <<SubSeq(s, 1, i-1)>> \o SplitLines(SubSeq(s, i+1, Len(s)))

\* line.trim() is truthy
NonBlank(line) == line # <<>>

\* JSON.parse(line): an object text is "{" and its body, nothing else.
JSONparseLenient(line) ==
  IF Len(line) = 2 /\ line[1] = "{" /\ line[2] \in BodyChars
    THEN EventOf(line[2])
    ELSE IF Len(line) = 3 /\ line[1] = "d" /\ line[2] = "{" /\ line[3] \in BodyChars
      THEN EventOf(line[3])
      ELSE ParseError

JSONparse(line) ==
  IF Len(line) = 2 /\ line[1] = "{" /\ line[2] \in BodyChars
    THEN EventOf(line[2])
    ELSE ParseError

----------------------------------------------------------------------------
(* AIClient.analyzeContentStream: the promise and the stream handlers *)

\* resolve(result): settles the promise unless it is settled already.
Resolve(st) ==
  IF st.settled = "pending"
    THEN [st EXCEPT !.settled = "resolved", !.result = st.full]
    ELSE st

\* reject(new Error(msg)): settles the promise unless it is settled already.
Reject(st, msg) ==
  IF st.settled = "pending"
    THEN [st EXCEPT !.settled = "rejected", !.rejectMsg = msg]
    ELSE st

\* onChunk(parsedChunk): the event is handed to the route's callback.
ForwardTwice(calls, ev) == calls \o <<ev, ev>>

Forward(calls, ev) == Append(calls, ev)

\* fullAnalysis += parsedChunk.content, for a partial event with content.
Accumulate(full, ev) ==
  IF ev.type = "partial" /\ ev.content # <<>> THEN full \o ev.content ELSE full

\* The body of the 'data' handler: the loop over the lines of one chunk.
\* The return after a complete or an error event leaves the loop.
RECURSIVE ProcessLines(_, _)
ProcessLines(lines, st) ==
  IF lines = <<>> THEN st
  ELSE
    LET line == Head(lines)
        ev   == JSONparse(line)
    IN IF ev = ParseError
         THEN ProcessLines(Tail(lines),
                           [st EXCEPT !.log = @ \cup {<<line, FALSE>>}])
         ELSE
           LET st1 == [st EXCEPT !.calls = Forward(@, ev),
                                 !.log = @ \cup {<<line, TRUE>>}]
           IN CASE ev.type = "partial" /\ ev.content # <<>> ->
                     ProcessLines(Tail(lines),
                                  [st1 EXCEPT !.full = Accumulate(@, ev)])
                [] ev.type = "complete" -> Resolve(st1)
                [] ev.type = "error"    -> Reject(st1, ev.content)
                [] OTHER -> ProcessLines(Tail(lines), st1)

\* chunk.toString().split('\n').filter(line => line.trim())
ChunkLines(chunk) == SelectSeq(SplitLines(chunk), NonBlank)

\* The 'data' handler applied to one chunk.
DataHandler(chunk, st) == ProcessLines(ChunkLines(chunk), st)

\* The 'end' handler.
EndHandlerAlwaysResolves(st) == Resolve(st)

EndHandler(st) ==
  IF st.full # <<>>
    THEN Resolve(st)
    ELSE Reject(st, <<"No analysis content received">>)

\* The 'error' handler.
ErrorHandler(st) == Reject(st, <<"Stream error">>)

\* The handler state when analyzeContentStream has attached its handlers.
FreshClient ==
  [calls |-> <<>>, full |-> <<>>, settled |-> "pending", result |-> <<>>,
   rejectMsg |-> <<>>, log |-> {}]

\* The handler state held in the variables.
ClientState ==
  [calls |-> <<>>, full |-> fullAnalysis, settled |-> settled,
   result |-> result, rejectMsg |-> rejectMsg, log |-> aiLog]

\* Stores a handler's outcome.  Each onChunk call is one res.write: the
\* response takes it while it is open and refuses it once it has ended.
Commit(st) ==
  /\ fullAnalysis' = st.full
  /\ settled' = st.settled
  /\ result' = st.result
  /\ rejectMsg' = st.rejectMsg
  /\ aiLog' = st.log
  /\ onChunkCalls' = onChunkCalls \o st.calls
  /\ IF resEnded
       THEN /\ lateWrites' = lateWrites + Len(st.calls)
            /\ sink' = sink
       ELSE /\ sink' = sink \o st.calls
            /\ lateWrites' = lateWrites

----------------------------------------------------------------------------
(* router.post('/analyze/stream') *)

\* The lines an inference producer may write: a bare JSON record, a record
\* in `data: ` framing, text that is not JSON, and an empty line.
ProducerBodies == {"P", "Q", "C", "E", "D"}

ProducerLines ==
  {<<"{", b>> : b \in ProducerBodies} \cup {<<"d", "{", "P">>, <<"x">>, <<>>}

\* The events written after analyzeContentStream resolved: lines 273-299.
SuccessTailSwapped(res) == <<RouteEvent("done", <<>>), RouteEvent("complete", res)>>

SuccessTail(res) == <<RouteEvent("complete", res), RouteEvent("done", <<>>)>>

\* The event written by the inner catch: lines 302-308.
FailureTail(msg) == <<RouteEvent("error", msg)>>

StatusEvent(m) == RouteEvent("status", <<m>>)

\* new AIClient() followed by the call of analyzeContentStream up to its
\* await of axios.post.  The constructor throws outside the inner try, so the
\* outer catch answers with res.status(500).json(...) on a response whose
\* headers are sent; that call throws and the response is never ended.
\* let analysisContent: the content, with the [VISUAL ANALYSIS] note added
\* when screenshotData is set.
AnalysisContent(shot) == IF shot THEN "augmented" ELSE "plain"

ConstructAndOpen(shot) ==
  IF apiKeySet
    THEN /\ pc' = "opening"
         /\ httpErrorAttempted' = httpErrorAttempted
         /\ analysisContent' = AnalysisContent(shot)
    ELSE /\ pc' = "crashed"
         /\ httpErrorAttempted' = TRUE
         /\ analysisContent' = analysisContent

\* The handler from its entry to its first await.
RouteBegin(inc) ==
  /\ pc = "start"
  /\ includeScreenshot' = inc
  /\ headersSent' = TRUE
  /\ IF inc
       THEN /\ sink' = <<StatusEvent("AI model is loading..."),
                         StatusEvent("Capturing webpage screenshot...")>>
            /\ pc' = "screenshot"
            /\ httpErrorAttempted' = httpErrorAttempted
            /\ analysisContent' = analysisContent
       ELSE /\ sink' = <<StatusEvent("AI model is loading...")>>
            /\ ConstructAndOpen(screenshotData)
  /\ UNCHANGED <<apiKeySet, screenshotData, resEnded, lateWrites, wire, fed,
                 nLines, prodState, fullAnalysis, settled, result, rejectMsg,
                 onChunkCalls, aiLog>>
  /\ UNCHANGED <<closedAt, completeShot, feVars, pureVars>>

\* ScreenshotService.captureScreenshot returned (ok) or threw.
ScreenshotDone(ok) ==
  /\ pc = "screenshot"
  /\ screenshotData' = ok
  /\ sink' = Append(sink,
                    IF ok THEN StatusEvent("Screenshot captured, analyzing content...")
                          ELSE StatusEvent("Screenshot capture failed, continuing with text analysis..."))
  /\ ConstructAndOpen(ok)
  /\ UNCHANGED <<apiKeySet, includeScreenshot, headersSent, resEnded,
                 lateWrites, wire, fed, nLines, prodState, fullAnalysis,
                 settled, result, rejectMsg, onChunkCalls, aiLog>>
  /\ UNCHANGED <<closedAt, completeShot, feVars, pureVars>>

\* axios.post resolved with the response stream; the handlers are attached.
OpenOk ==
  /\ pc = "opening"
  /\ pc' = "streaming"
  /\ prodState' = "open"
  /\ UNCHANGED <<apiKeySet, includeScreenshot, screenshotData, headersSent,
                 sink, resEnded, lateWrites, httpErrorAttempted, wire, fed,
                 nLines, fullAnalysis, settled, result, rejectMsg,
                 onChunkCalls, aiLog>>
  /\ UNCHANGED <<closedAt, analysisContent, completeShot, feVars, pureVars>>

\* axios.post rejected (connection failure, error status, timeout):
\* analyzeContentStream throws and the inner catch of the route runs.
OpenFail(cause) ==
  /\ pc = "opening"
  /\ settled' = "rejected"
  /\ rejectMsg' = <<"AI analysis failed", cause>>
  /\ sink' = sink \o FailureTail(rejectMsg')
  /\ resEnded' = TRUE
  /\ pc' = "ended"
  /\ UNCHANGED <<apiKeySet, includeScreenshot, screenshotData, headersSent,
                 lateWrites, httpErrorAttempted, wire, fed, nLines, prodState,
                 fullAnalysis, result, onChunkCalls, aiLog>>
  /\ UNCHANGED <<closedAt, analysisContent, completeShot, feVars, pureVars>>

\* The inference producer writes one more line.
ProducerWrite(line) ==
  /\ prodState = "open"
  /\ nLines < MaxLines
  /\ nLines' = nLines + 1
  /\ wire' = wire \o line \o <<"n">>
  /\ UNCHANGED <<pc, apiKeySet, includeScreenshot, screenshotData, headersSent,
                 sink, resEnded, lateWrites, httpErrorAttempted, fed,
                 prodState, fullAnalysis, settled, result, rejectMsg,
                 onChunkCalls, aiLog>>
  /\ UNCHANGED <<closedAt, analysisContent, completeShot, feVars, pureVars>>

\* The transport delivers the next characters, however many, as one chunk.
Data ==
  /\ prodState = "open"
  /\ \E k \in 1..Len(wire) :
       LET chunk == SubSeq(wire, 1, k)
       IN /\ Commit(DataHandler(chunk, ClientState))
          /\ fed' = fed \o chunk
          /\ wire' = SubSeq(wire, k+1, Len(wire))
  /\ UNCHANGED <<pc, apiKeySet, includeScreenshot, screenshotData, headersSent,
                 resEnded, httpErrorAttempted, nLines, prodState>>
  /\ UNCHANGED <<closedAt, analysisContent, completeShot, feVars, pureVars>>

\* The producer stream ended after all its text was delivered.
ProducerEnd ==
  /\ prodState = "open"
  /\ wire = <<>>
  /\ prodState' = "ended"
  /\ Commit(EndHandler(ClientState))
  /\ UNCHANGED <<pc, apiKeySet, includeScreenshot, screenshotData, headersSent,
                 resEnded, httpErrorAttempted, wire, fed, nLines>>
  /\ UNCHANGED <<closedAt, analysisContent, completeShot, feVars, pureVars>>

\* The producer stream failed: a transport error, or the request timeout
\* aborting the response.
ProducerError ==
  /\ prodState = "open"
  /\ prodState' = "errored"
  /\ Commit(ErrorHandler(ClientState))
  /\ UNCHANGED <<pc, apiKeySet, includeScreenshot, screenshotData, headersSent,
                 resEnded, httpErrorAttempted, wire, fed, nLines>>
  /\ UNCHANGED <<closedAt, analysisContent, completeShot, feVars, pureVars>>

\* The route resumes after its await of analyzeContentStream.
\* screenshot: screenshotData ? {...} : null in the complete event
CompleteScreenshot(shot) == shot

RouteResume ==
  /\ pc = "streaming"
  /\ settled # "pending"
  /\ sink' = sink \o (IF settled = "resolved" THEN SuccessTail(result)
                                              ELSE FailureTail(rejectMsg))
  /\ completeShot' = (settled = "resolved" /\ CompleteScreenshot(screenshotData))
  /\ resEnded' = TRUE
  /\ pc' = "ended"
  /\ UNCHANGED <<apiKeySet, includeScreenshot, screenshotData, headersSent,
                 lateWrites, httpErrorAttempted, wire, fed, nLines, prodState,
                 fullAnalysis, settled, result, rejectMsg, onChunkCalls, aiLog>>
  /\ UNCHANGED <<closedAt, analysisContent, feVars, pureVars>>

----------------------------------------------------------------------------
(* ApiService.analyzeUrlStream: the read loop, lines 65-131 *)

\* The lines the response may carry: records in `data: ` framing, a bare
\* JSON record, a framed line whose payload is not JSON, other text, and an
\* empty line.
FeBodies == {"P", "R", "E", "D"}

FeLines ==
  {<<"d", "{", b>> : b \in FeBodies}
    \cup {<<"{", "P">>, <<"d", "x">>, <<"x">>, <<>>}

\* line.startsWith('data: ')
StartsWithData(line) == Len(line) >= 1 /\ line[1] = "d"

\* line.slice(6)
Slice6(line) == SubSeq(line, 2, Len(line))

\* buffer = lines.pop() || '': the text after the last newline is kept.
RemainderDropped(lines) == <<>>

Remainder(lines) == lines[Len(lines)]

\* lines after lines.pop()
Popped(lines) == SubSeq(lines, 1, Len(lines) - 1)

\* The for loop over the complete lines of one read.
RECURSIVE FeProcessLines(_, _)
FeProcessLines(lines, st) ==
  IF lines = <<>> THEN st
  ELSE
    LET line == Head(lines)
    IN IF NonBlank(line) /\ StartsWithData(line)
         THEN LET ev == JSONparse(Slice6(line))
              IN IF ev = ParseError
                   THEN FeProcessLines(Tail(lines),
                          [st EXCEPT !.log = @ \cup {<<line, FALSE>>}])
                   ELSE FeProcessLines(Tail(lines),
                          [st EXCEPT !.log = @ \cup {<<line, TRUE>>},
                                     !.events = Append(@, ev),
                                     !.final = @ \/ (ev.type = "complete"
                                                     /\ ev.content # <<>>)])
         ELSE FeProcessLines(Tail(lines),
                [st EXCEPT !.log = @ \cup {<<line, FALSE>>}])

\* The read loop run once over a whole text.
FeWhole(text) ==
  FeProcessLines(Popped(SplitLines(text)),
                 [events |-> <<>>, final |-> FALSE, log |-> {}])

\* The orchestrator writes one more line; an unterminated line is its last.
FeServerWrite(line, nl) ==
  /\ fePc = "reading"
  /\ feN < FeMaxLines
  /\ nl \/ line # <<>>
  /\ feN' = IF nl THEN feN + 1 ELSE FeMaxLines
  /\ feWire' = feWire \o line \o (IF nl THEN <<"n">> ELSE <<>>)
  /\ UNCHANGED <<fePc, feFed, buffer, feEvents, finalResult, feLog, feJoined,
                 uiError, uiResult>>
  /\ UNCHANGED <<relayVars, pureVars>>

\* reader.read() returned the next characters, however many: one pass of
\* the while loop.
FeRead ==
  /\ fePc = "reading"
  /\ \E k \in 1..Len(feWire) :
       LET chunk == SubSeq(feWire, 1, k)
           lines == SplitLines(buffer \o chunk)
           st    == FeProcessLines(Popped(lines),
                      [events |-> feEvents, final |-> finalResult, log |-> feLog])
       IN /\ buffer' = Remainder(lines)
          /\ feEvents' = st.events
          /\ finalResult' = st.final
          /\ feLog' = st.log
          /\ feFed' = feFed \o chunk
          /\ feJoined' = IF buffer # <<>> /\ Len(lines) > 1
                          THEN feJoined + 1 ELSE feJoined
          /\ feWire' = SubSeq(feWire, k+1, Len(feWire))
  /\ UNCHANGED <<fePc, feN, uiError, uiResult>>
  /\ UNCHANGED <<relayVars, pureVars>>

\* The message of the Error thrown after the loop; the events read do not
\* enter it.
ThrownMessage(events) == <<"No analysis result received">>

\* reader.read() returned done: the loop is left and the result is returned,
\* or the function throws when no complete event carried a result.  The
\* page then shows the result (setAnalysisResult) or the message of the
\* exception (setError); its onChunk ignores error events.
FeEndFlush ==
  /\ fePc = "reading"
  /\ feWire = <<>>
  /\ LET st == FeProcessLines(<<buffer>>,
                  [events |-> feEvents, final |-> finalResult, log |-> feLog])
     IN  /\ feEvents' = st.events
         /\ finalResult' = st.final
         /\ feLog' = st.log
         /\ fePc' = IF st.final THEN "returned" ELSE "threw"
         /\ uiResult' = st.final
         /\ uiError' = IF st.final THEN <<>> ELSE ThrownMessage(st.events)
  /\ UNCHANGED <<feWire, feFed, feN, buffer, feJoined>>
  /\ UNCHANGED <<relayVars, pureVars>>

FeEnd ==
  /\ fePc = "reading"
  /\ feWire = <<>>
  /\ fePc' = IF finalResult THEN "returned" ELSE "threw"
  /\ uiResult' = finalResult
  /\ uiError' = IF finalResult THEN <<>> ELSE ThrownMessage(feEvents)
  /\ UNCHANGED <<feWire, feFed, feN, buffer, feEvents, finalResult, feLog,
                 feJoined>>
  /\ UNCHANGED <<relayVars, pureVars>>

\* The caller's connection closes while the analysis is in flight.  The
\* route registers no handler for it: nothing but the connection changes.
ClientDisconnect ==
  /\ closedAt = -1
  /\ pc \in {"screenshot", "opening", "streaming"}
  /\ closedAt' = Len(sink)
  /\ UNCHANGED <<pc, apiKeySet, includeScreenshot, screenshotData, headersSent,
                 sink, resEnded, lateWrites, httpErrorAttempted, wire, fed,
                 nLines, prodState, fullAnalysis, settled, result, rejectMsg,
                 onChunkCalls, aiLog, analysisContent, completeShot>>
  /\ UNCHANGED <<feVars, pureVars>>

RelayInit ==
  /\ pc = "start"
  /\ apiKeySet \in BOOLEAN
  /\ includeScreenshot = FALSE
  /\ screenshotData = FALSE
  /\ headersSent = FALSE
  /\ sink = <<>>
  /\ resEnded = FALSE
  /\ lateWrites = 0
  /\ httpErrorAttempted = FALSE
  /\ wire = <<>>
  /\ fed = <<>>
  /\ nLines = 0
  /\ prodState = "none"
  /\ fullAnalysis = <<>>
  /\ settled = "pending"
  /\ result = <<>>
  /\ rejectMsg = <<>>
  /\ onChunkCalls = <<>>
  /\ aiLog = {}
  /\ closedAt = -1
  /\ analysisContent = "none"
  /\ completeShot = FALSE

FeInit ==
  /\ fePc = "reading"
  /\ feWire = <<>>
  /\ feFed = <<>>
  /\ feN = 0
  /\ buffer = <<>>
  /\ feEvents = <<>>
  /\ finalResult = FALSE
  /\ feLog = {}
  /\ feJoined = 0
  /\ uiError = <<>>
  /\ uiResult = FALSE

Init == RelayInit /\ FeInit /\ PureIdle

Next ==
  \/ \E inc \in BOOLEAN : RouteBegin(inc)
  \/ \E ok \in BOOLEAN : ScreenshotDone(ok)
  \/ OpenOk
  \/ \E cause \in {"refused", "timeout"} : OpenFail(cause)
  \/ \E line \in ProducerLines : ProducerWrite(line)
  \/ Data
  \/ ProducerEnd
  \/ ProducerError
  \/ RouteResume

Spec == Init /\ [][Next]_vars

\* The route with a caller that may disconnect.
NextCancel == Next \/ ClientDisconnect

SpecCancel == Init /\ [][NextCancel]_vars

NextFE ==
  \/ \E line \in FeLines, nl \in BOOLEAN : FeServerWrite(line, nl)
  \/ FeRead
  \/ FeEnd

SpecFE == Init /\ [][NextFE]_vars

----------------------------------------------------------------------------
(* The two readers applied to single lines *)

LineChars == {"d", "{", "P", "x"}

CandidateLines == UNION {[1..n -> LineChars] : n \in 0..MaxLineLen}

\* The 'data' handler of a fresh analyzeContentStream receives the line and
\* its newline as one chunk.
AiLine(line) ==
  /\ fed = <<>>
  /\ LET st == DataHandler(line \o <<"n">>, FreshClient)
     IN /\ onChunkCalls' = st.calls
        /\ aiLog' = st.log
  /\ fed' = line \o <<"n">>
  /\ UNCHANGED <<pc, apiKeySet, includeScreenshot, screenshotData, headersSent,
                 sink, resEnded, lateWrites, httpErrorAttempted, wire, nLines,
                 prodState, fullAnalysis, settled, result, rejectMsg>>
  /\ UNCHANGED <<closedAt, analysisContent, completeShot, feVars, pureVars>>

\* The read loop of a fresh analyzeUrlStream receives the line and its
\* newline as one chunk.
FeLine(line) ==
  /\ feFed = <<>>
  /\ LET st == FeWhole(line \o <<"n">>)
     IN /\ feEvents' = st.events
        /\ feLog' = st.log
  /\ feFed' = line \o <<"n">>
  /\ UNCHANGED <<fePc, feWire, feN, buffer, finalResult, feJoined, uiError,
                 uiResult>>
  /\ UNCHANGED <<relayVars, pureVars>>

NextLines ==
  \/ \E line \in CandidateLines : AiLine(line)
  \/ \E line \in CandidateLines : FeLine(line)

SpecLines == Init /\ [][NextLines]_vars

----------------------------------------------------------------------------
(* AIClient.parseAnalysis.  An analysis text is a sequence of characters:
   "n" is a newline, " " a blank, "-" a dash, "1" a digit, "." a dot,
   "T" the delimiter </think>, "S", "W" and "R" a word that contains
   "strength", "weakness" or "recommendation" in any letter case, and
   "a", "b" any other text. *)

IsSpace(c) == c \in {" ", "n"}

\* String.prototype.trim
Trim(s) ==
  LET keep == {i \in 1..Len(s) : ~IsSpace(s[i])}
  IN  IF keep = {} THEN <<>>
      ELSE SubSeq(s, CHOOSE i \in keep : \A k \in keep : i <= k,
                     CHOOSE i \in keep : \A k \in keep : i >= k)

\* String.prototype.includes, for a one-character needle
Includes(s, c) == \E i \in 1..Len(s) : s[i] = c

\* analysisText.split('</think>').pop()
AfterLastThink(s) ==
  LET i == CHOOSE j \in 1..Len(s) :
             s[j] = "T" /\ \A k \in (j+1)..Len(s) : s[k] # "T"
  IN  SubSeq(s, i+1, Len(s))

\* let cleanText: an empty remainder is falsy, so || yields the whole text
CleanText(analysisText) ==
  IF Includes(analysisText, "T")
    THEN IF Trim(AfterLastThink(analysisText)) # <<>>
           THEN Trim(AfterLastThink(analysisText))
           ELSE analysisText
    ELSE analysisText

HeaderOfLastFirst(trimmedLine) ==
  IF Includes(trimmedLine, "R") THEN "recommendations"
  ELSE IF Includes(trimmedLine, "W") THEN "weaknesses"
  ELSE IF Includes(trimmedLine, "S") THEN "strengths"
  ELSE ""

\* The section a line switches to, "" when the line is no header; the
\* tests run in the order strength, weakness, recommendation.
HeaderOf(trimmedLine) ==
  IF Includes(trimmedLine, "S") THEN "strengths"
  ELSE IF Includes(trimmedLine, "W") THEN "weaknesses"
  ELSE IF Includes(trimmedLine, "R") THEN "recommendations"
  ELSE ""

\* trimmedLine.startsWith('-') || trimmedLine.match(/^\d+\./)
IsListItem(trimmedLine) ==
  /\ trimmedLine # <<>>
  /\ \/ trimmedLine[1] = "-"
     \/ \E k \in 1..(Len(trimmedLine) - 1) :
          /\ \A i \in 1..k : trimmedLine[i] = "1"
          /\ trimmedLine[k+1] = "."

\* trimmedLine.replace(/^[-\d\.]\s*/, '').trim(): one marker character is
\* removed; the blanks after it go with the trim.
StripMarker(trimmedLine) ==
  IF trimmedLine # <<>> /\ trimmedLine[1] \in {"-", "1", "."}
    THEN Trim(Tail(trimmedLine))
    ELSE Trim(trimmedLine)

PushUnique(out, section, item) ==
  IF section = "" \/ \E i \in 1..Len(out[section]) : out[section][i] = item
    THEN out
    ELSE [out EXCEPT ![section] = Append(@, item)]

\* the push into the list of currentSection; no list when it is ''
Push(out, section, item) ==
  IF section = "" THEN out
  ELSE [out EXCEPT ![section] = Append(@, item)]

\* for (const line of lines)
RECURSIVE ParseLines(_, _, _)
ParseLines(lines, currentSection, out) ==
  IF lines = <<>> THEN out
  ELSE LET trimmedLine == Trim(Head(lines))
           rest == Tail(lines)
       IN  IF HeaderOf(trimmedLine) # ""
             THEN ParseLines(rest, HeaderOf(trimmedLine), out)
           ELSE IF IsListItem(trimmedLine) /\ StripMarker(trimmedLine) # <<>>
             THEN ParseLines(rest, currentSection,
                             Push(out, currentSection, StripMarker(trimmedLine)))
           ELSE ParseLines(rest, currentSection, out)

parseAnalysis(analysisText) ==
  LET cleanText == CleanText(analysisText)
  IN  ParseLines(SplitLines(cleanText), "",
                 [NoResult EXCEPT !.analysis = cleanText])

\* Lines the analysis texts are made of.
TextLines ==
  { <<"S">>, <<"W">>, <<"R">>,
    <<"-", " ", "a">>, <<"-", "b">>, <<"-", "a", " ", "W">>,
    <<"-", "a", "T", "b">>, <<" ", "-", "a">>, <<"1", ".", "a">>,
    <<"-", "R", "W">>,
    <<"a">>, <<"a", "T">>, <<"T", " ">>, <<>> }

RECURSIVE JoinLines(_)
JoinLines(lines) ==
  IF Len(lines) = 1 THEN lines[1]
  ELSE lines[1] \o <<"n">> \o JoinLines(Tail(lines))

AnalysisTexts ==
  { JoinLines(ls) : ls \in UNION { [1..n -> TextLines] : n \in 1..MaxTextLines } }

\* One call of parseAnalysis.
ParseCall ==
  /\ paPc = "input"
  /\ paOut' = parseAnalysis(paText)
  /\ paPc' = "parsed"
  /\ UNCHANGED <<paText, serviceVars, relayVars, feVars, codecVars, validateVars,
                 extractVars, fetchVars>>

InitParse ==
  /\ RelayInit /\ FeInit /\ ServiceIdle
  /\ paPc = "input"
  /\ paText \in AnalysisTexts
  /\ paOut = NoResult
  /\ CodecIdle /\ ValidateIdle /\ ExtractIdle /\ FetchIdle

NextParse == ParseCall

SpecParse == InitParse /\ [][NextParse]_vars

----------------------------------------------------------------------------
(* The event codec: res.write(`data: ${JSON.stringify(chunk)}\n\n`) on the
   route and JSON.parse(line.slice(6)) in the caller's read loop.  The
   characters of a string field are "n" (a newline), "q" (a double quote),
   "\\" (a backslash), "l" (the letter n) and "a" (any other character).
   On the wire "d" is `data: `, "{" and "}" delimit the object, one letter
   stands for the type member and "," precedes the string member. *)

StrChars == {"a", "l", "n", "q", "\\"}

TypeCode ==
  [status |-> "S", partial |-> "P", complete |-> "C", error |-> "E",
   done |-> "D"]

EventTypes == DOMAIN TypeCode

EscapeNothing(c) == <<c>>

\* JSON.stringify of one character of a string
Escape(c) ==
  IF c = "n" THEN <<"\\", "l">>
  ELSE IF c = "q" THEN <<"\\", "q">>
  ELSE IF c = "\\" THEN <<"\\", "\\">>
  ELSE <<c>>

RECURSIVE EscapeAll(_)
EscapeAll(str) ==
  IF str = <<>> THEN <<>> ELSE Escape(Head(str)) \o EscapeAll(Tail(str))

\* JSON.stringify of a string
StringifyString(str) == <<"q">> \o EscapeAll(str) \o <<"q">>

\* JSON.stringify(chunk)
JSONstringify(ev) ==
  <<"{", TypeCode[ev.type]>>
    \o (IF ev.fields = <<>> THEN <<>>
        ELSE <<",">> \o StringifyString(ev.fields[1]))
    \o <<"}">>

\* `data: ${JSON.stringify(chunk)}\n\n`
EncodeRecord(ev) == <<"d">> \o JSONstringify(ev) \o <<"n", "n">>

\* JSON.parse of what follows the opening quote of a string: ok is FALSE
\* for an unterminated string, a raw control character, an unknown escape
\* or text after the closing quote.
RECURSIVE Unquote(_, _)
Unquote(s, acc) ==
  IF s = <<>> THEN [ok |-> FALSE, str |-> acc]
  ELSE IF s[1] = "q" THEN [ok |-> Len(s) = 1, str |-> acc]
  ELSE IF s[1] = "n" THEN [ok |-> FALSE, str |-> acc]
  ELSE IF s[1] = "\\"
    THEN IF Len(s) >= 2 /\ s[2] \in {"l", "q", "\\"}
           THEN Unquote(SubSeq(s, 3, Len(s)),
                        Append(acc, IF s[2] = "l" THEN "n" ELSE s[2]))
           ELSE [ok |-> FALSE, str |-> acc]
  ELSE Unquote(Tail(s), Append(acc, s[1]))

\* JSON.parse of an object text
JSONparseObject(text) ==
  IF /\ Len(text) >= 3
     /\ text[1] = "{"
     /\ text[Len(text)] = "}"
     /\ \E t \in EventTypes : TypeCode[t] = text[2]
    THEN LET type == CHOOSE t \in EventTypes : TypeCode[t] = text[2]
             members == SubSeq(text, 3, Len(text) - 1)
         IN  IF members = <<>> THEN [type |-> type, fields |-> <<>>]
             ELSE IF Len(members) >= 2 /\ members[1] = "," /\ members[2] = "q"
               THEN LET u == Unquote(SubSeq(members, 3, Len(members)), <<>>)
                    IN  IF u.ok THEN [type |-> type, fields |-> <<u.str>>]
                        ELSE ParseError
             ELSE ParseError
    ELSE ParseError

\* The for loop of the read loop: the events passed to onChunk.
RECURSIVE DecodeLines(_)
DecodeLines(lines) ==
  IF lines = <<>> THEN <<>>
  ELSE LET line == Head(lines)
       IN  IF NonBlank(line) /\ StartsWithData(line)
                /\ JSONparseObject(Slice6(line)) # ParseError
             THEN <<JSONparseObject(Slice6(line))>> \o DecodeLines(Tail(lines))
             ELSE DecodeLines(Tail(lines))

\* The read loop over the text of one record.
DecodeRecord(text) == DecodeLines(Popped(SplitLines(text)))

FieldStrings == UNION { [1..n -> StrChars] : n \in 0..MaxFieldLen }

StreamEvents ==
  { [type |-> t, fields |-> f] :
      t \in EventTypes, f \in {<<>>} \cup { <<str>> : str \in FieldStrings } }

\* The route writes the event.
CodecEncode ==
  /\ cdPc = "input"
  /\ cdRecord' = EncodeRecord(cdEvent)
  /\ cdPc' = "encoded"
  /\ UNCHANGED <<cdEvent, cdDecoded, serviceVars, relayVars, feVars, parseVars,
                 validateVars, extractVars, fetchVars>>

\* The caller reads the record.
CodecDecode ==
  /\ cdPc = "encoded"
  /\ cdDecoded' = DecodeRecord(cdRecord)
  /\ cdPc' = "decoded"
  /\ UNCHANGED <<cdEvent, cdRecord, serviceVars, relayVars, feVars, parseVars,
                 validateVars, extractVars, fetchVars>>

InitCodec ==
  /\ RelayInit /\ FeInit /\ ServiceIdle /\ ParseIdle /\ ValidateIdle /\ ExtractIdle
  /\ FetchIdle
  /\ cdPc = "input"
  /\ cdEvent \in StreamEvents
  /\ cdRecord = <<>>
  /\ cdDecoded = <<>>

NextCodec == CodecEncode \/ CodecDecode

SpecCodec == InitCodec /\ [][NextCodec]_vars

----------------------------------------------------------------------------
(* validateAnalysisInput, the middleware of POST /api/analyze and of POST
   /api/analyze/stream.  Of the body, url is "missing" (absent, null or ''),
   "http" or "https" (an absolute URL of that protocol), "relative" (no
   protocol), "ftp" (another protocol) or "number" (not a string); content
   is "missing", a "string" of len characters, an "array" of len elements
   or a "number", which has no length. *)

MinContentLength == 10

MaxContentLength == 100000

UrlKinds == {"missing", "http", "https", "relative", "ftp", "number"}

ContentLengths ==
  {1, MinContentLength - 1, MinContentLength, MinContentLength + 1,
   MaxContentLength - 1, MaxContentLength, MaxContentLength + 1}

Requests ==
  { [route |-> r, url |-> u, kind |-> k, len |-> n, overLimit |-> o] :
      r \in {"analyze", "stream"}, u \in UrlKinds,
      k \in {"string", "array"}, n \in ContentLengths, o \in BOOLEAN }
  \cup
  { [route |-> r, url |-> u, kind |-> k, len |-> 0, overLimit |-> o] :
      r \in {"analyze", "stream"}, u \in UrlKinds,
      k \in {"missing", "number"}, o \in BOOLEAN }

\* validator.isURL with protocols http and https and require_protocol
IsURL(url) == url \in {"http", "https"}

\* content.length < 10; a number has no length and the test is false
TooShort(req) ==
  req.kind \in {"string", "array"} /\ req.len < MinContentLength

\* content.length > 100000
TooLarge(req) ==
  req.kind \in {"string", "array"} /\ req.len > MaxContentLength

\* The outcome of the middleware: a 400 response, an exception (isURL
\* asserts that its argument is a string; content.replace exists on
\* strings only), or next().
validateAnalysisInput(req) ==
  IF req.url = "missing" \/ req.kind = "missing" THEN "400"
  ELSE IF req.url = "number" THEN "throw"
  ELSE IF ~IsURL(req.url) THEN "400"
  ELSE IF TooShort(req) THEN "400"
  ELSE IF TooLarge(req) THEN "400"
  ELSE IF req.kind # "string" THEN "throw"
  ELSE "next"

\* analyzeRateLimit answers a request over the limit of its window.
RateLimitReject ==
  /\ vdPc = "input"
  /\ vdReq.overLimit
  /\ vdPc' = "limited"
  /\ vdStatus' = 429
  /\ UNCHANGED <<vdReq, vdStarted, serviceVars, relayVars, feVars, parseVars, codecVars,
                 extractVars, fetchVars>>

\* The middleware runs; an exception it throws reaches the default error
\* handler of the application, which answers 500.
ValidateRequest ==
  /\ vdPc = "input"
  /\ ~vdReq.overLimit
  /\ LET outcome == validateAnalysisInput(vdReq)
     IN  /\ vdPc' = CASE outcome = "400" -> "rejected"
                      [] outcome = "throw" -> "threw"
                      [] OTHER -> "handler"
         /\ vdStatus' = CASE outcome = "400" -> 400
                          [] outcome = "throw" -> 500
                          [] OTHER -> 0
  /\ UNCHANGED <<vdReq, vdStarted, serviceVars, relayVars, feVars, parseVars, codecVars,
                 extractVars, fetchVars>>

\* The route handler begins: the stream route writes the SSE header, the
\* analyze route calls the inference backend.
HandlerBegin ==
  /\ vdPc = "handler"
  /\ vdPc' = "started"
  /\ vdStarted' = TRUE
  /\ vdStatus' = IF vdReq.route = "stream" THEN 200 ELSE vdStatus
  /\ UNCHANGED <<vdReq, serviceVars, relayVars, feVars, parseVars, codecVars, extractVars,
                 fetchVars>>

InitValidate ==
  /\ RelayInit /\ FeInit /\ ServiceIdle /\ ParseIdle /\ CodecIdle /\ ExtractIdle
  /\ FetchIdle
  /\ vdPc = "input"
  /\ vdReq \in Requests
  /\ vdStatus = 0
  /\ vdStarted = FALSE

NextValidate == RateLimitReject \/ ValidateRequest \/ HandlerBegin

SpecValidate == InitValidate /\ [][NextValidate]_vars

----------------------------------------------------------------------------
(* Content extraction ahead of the analysis: the scrape step of
   ApiService.analyzeUrlStream, and the scrape step of the compiled earlier
   route POST /analyze/stream (analyzer.js). *)

\* Lengths of the extracted content, -1 for a missing content member.
ContentLens == {-1, 0, 1, MinContentLength - 1, MinContentLength,
                MinContentLength + 1}

\* The page script answers of POST /scrape.
ScrapeResponses ==
  { [status |-> st, len |-> -1] : st \in {"network", "nonOK"} }
  \cup { [status |-> "ok", len |-> n] : n \in ContentLens }

\* What WebScraper.scrapeUrl does: it throws, or returns a content string.
ScrapeResults ==
  { [status |-> "network", len |-> -1] }
  \cup { [status |-> "ok", len |-> n] : n \in ContentLens \ {-1} }

\* onChunk({type: 'status', message: 'Scraping webpage content...'}) and
\* the fetch of /scrape
FeScrapeBegin ==
  /\ exPath = "frontend" /\ exPc = "start"
  /\ exPc' = "scraping"
  /\ UNCHANGED <<exPath, exReq, exScrape, exErrors, exAnalysisRequests>>
  /\ UNCHANGED <<serviceVars, relayVars, feVars, parseVars, codecVars, validateVars,
                 fetchVars>>

\* the response is ok and `!content || content.length < 10` is false
ContentUsable(r) == r.status = "ok" /\ r.len >= MinContentLength

\* The rest of the try block and what follows it: a failure is rethrown as
\* 'Content scraping failed: ...' and leaves analyzeUrlStream; otherwise
\* the content is posted to /api/analyze/stream.
FeScrapeEnd ==
  /\ exPath = "frontend" /\ exPc = "scraping"
  /\ \E r \in ScrapeResponses :
       /\ exScrape' = r
       /\ IF ContentUsable(r)
            THEN /\ exPc' = "analysing"
                 /\ exAnalysisRequests' = exAnalysisRequests + 1
                 /\ exErrors' = exErrors
            ELSE /\ exPc' = "threw"
                 /\ exErrors' = exErrors + 1
                 /\ exAnalysisRequests' = exAnalysisRequests
  /\ UNCHANGED <<exPath, exReq>>
  /\ UNCHANGED <<serviceVars, relayVars, feVars, parseVars, codecVars, validateVars,
                 fetchVars>>

\* The earlier route answers 400 when url is missing or new URL(url) throws.
LegacyReject ==
  /\ exPath = "legacy" /\ exPc = "start"
  /\ exReq.url # "valid"
  /\ exPc' = "rejected"
  /\ UNCHANGED <<exPath, exReq, exScrape, exErrors, exAnalysisRequests>>
  /\ UNCHANGED <<serviceVars, relayVars, feVars, parseVars, codecVars, validateVars,
                 fetchVars>>

\* The earlier route writes the SSE header and the first status event.
LegacyBegin ==
  /\ exPath = "legacy" /\ exPc = "start"
  /\ exReq.url = "valid"
  /\ exPc' = "scraping"
  /\ UNCHANGED <<exPath, exReq, exScrape, exErrors, exAnalysisRequests>>
  /\ UNCHANGED <<serviceVars, relayVars, feVars, parseVars, codecVars, validateVars,
                 fetchVars>>

\* await WebScraper.scrapeUrl(url): an exception is answered by one error
\* event and res.end(); any returned content, whatever its length, is
\* posted to the inference backend.
LegacyScrape ==
  /\ exPath = "legacy" /\ exPc = "scraping"
  /\ \E r \in ScrapeResults :
       /\ exScrape' = r
       /\ IF r.status = "ok"
            THEN /\ exPc' = "analysing"
                 /\ exAnalysisRequests' = exAnalysisRequests + 1
                 /\ exErrors' = exErrors
            ELSE /\ exPc' = "ended"
                 /\ exErrors' = exErrors + 1
                 /\ exAnalysisRequests' = exAnalysisRequests
  /\ UNCHANGED <<exPath, exReq>>
  /\ UNCHANGED <<serviceVars, relayVars, feVars, parseVars, codecVars, validateVars,
                 fetchVars>>

InitExtract ==
  /\ RelayInit /\ FeInit /\ ServiceIdle /\ ParseIdle /\ CodecIdle /\ ValidateIdle
  /\ FetchIdle
  /\ exPc = "start"
  /\ exPath \in {"frontend", "legacy"}
  /\ exReq \in [url : {"missing", "invalid", "valid"},
                includeScreenshot : BOOLEAN]
  /\ exScrape = NoScrape
  /\ exErrors = 0
  /\ exAnalysisRequests = 0

NextExtract ==
  \/ FeScrapeBegin \/ FeScrapeEnd
  \/ LegacyReject \/ LegacyBegin \/ LegacyScrape

SpecExtract == InitExtract /\ [][NextExtract]_vars

----------------------------------------------------------------------------
(* The routes that fetch a caller-supplied URL: POST /scrape, which calls
   WebScraper.scrapeUrl of services/scraper; the screenshot step of POST
   /api/analyze/stream; and WebScraper.scrapeUrl of services/scraper_enhanced
   with its validateUrl.  The url is an http URL told apart by its host. *)

Hosts ==
  {"missing",        \* no url
   "public",         \* example.com
   "localhost",
   "127.0.0.1",
   "127.0.0.2",      \* loopback, another address of 127.0.0.0/8
   "[::1]",          \* loopback, IPv6
   "10.0.0.1",
   "192.168.0.1",
   "172.16.0.1",
   "169.254.169.254"}  \* link-local

FetchRoutes == {"scrape", "stream", "enhanced"}

FetchRequests ==
  [route : FetchRoutes, host : Hosts, includeScreenshot : BOOLEAN]

\* WebScraper.validateUrl of scraper_enhanced: TRUE when it throws
validateUrlThrows(host) ==
  \/ host = "missing"
  \/ host = "localhost"
  \/ host = "127.0.0.1"
  \/ host \in {"192.168.0.1"}         \* startsWith('192.168.')
  \/ host \in {"10.0.0.1"}            \* startsWith('10.')
  \/ host \in {"172.16.0.1"}          \* startsWith('172.')

\* validator.isURL of the middleware: a host needs a top-level domain or
\* has to be an IP address.
IsURLHost(host) == host \notin {"missing", "localhost"}

\* POST /scrape: 400 without a url, else WebScraper.scrapeUrl(url), whose
\* first statement is axios.get(url).
ScrapeRoute ==
  /\ ftPc = "input" /\ ftReq.route = "scrape"
  /\ ftPc' = "done"
  /\ IF ftReq.host = "missing"
       THEN ftStatus' = 400 /\ ftFetched' = FALSE
       ELSE ftStatus' = 0 /\ ftFetched' = TRUE
  /\ UNCHANGED <<ftReq, serviceVars, relayVars, feVars, parseVars, codecVars, validateVars,
                 extractVars>>

\* scrapeUrl of scraper_enhanced: validateUrl, then makeRequest.
EnhancedScrape ==
  /\ ftPc = "input" /\ ftReq.route = "enhanced"
  /\ ftPc' = "done"
  /\ ftStatus' = 0
  /\ ftFetched' = ~validateUrlThrows(ftReq.host)
  /\ UNCHANGED <<ftReq, serviceVars, relayVars, feVars, parseVars, codecVars, validateVars,
                 extractVars>>

\* validateAnalysisInput on the url of a request with a valid content.
StreamValidate ==
  /\ ftPc = "input" /\ ftReq.route = "stream"
  /\ IF IsURLHost(ftReq.host)
       THEN ftPc' = "validated" /\ ftStatus' = 0
       ELSE ftPc' = "done" /\ ftStatus' = 400
  /\ UNCHANGED <<ftReq, ftFetched, serviceVars, relayVars, feVars, parseVars, codecVars,
                 validateVars, extractVars>>

\* The screenshot step: ScreenshotService.captureScreenshot(url, ...) opens
\* the url in the browser when includeScreenshot is set.
StreamScreenshot ==
  /\ ftPc = "validated"
  /\ ftPc' = "done"
  /\ ftFetched' = ftReq.includeScreenshot
  /\ UNCHANGED <<ftReq, ftStatus, serviceVars, relayVars, feVars, parseVars, codecVars,
                 validateVars, extractVars>>

InitFetch ==
  /\ RelayInit /\ FeInit /\ ServiceIdle /\ ParseIdle /\ CodecIdle /\ ValidateIdle
  /\ ExtractIdle
  /\ ftPc = "input"
  /\ ftReq \in FetchRequests
  /\ ftStatus = 0
  /\ ftFetched = FALSE

NextFetch == ScrapeRoute \/ EnhancedScrape \/ StreamValidate \/ StreamScreenshot

SpecFetch == InitFetch /\ [][NextFetch]_vars

----------------------------------------------------------------------------
(* Helpers of the properties *)

Count(seq, P(_)) == Len(SelectSeq(seq, P))

IsComplete(e) == e.type = "complete"
IsDone(e)     == e.type = "done"
IsError(e)    == e.type = "error"
FromProducer(e) == e.src = "producer"
FromRoute(e)    == e.src = "route"
RouteTerminal(e) == e.src = "route" /\ e.type \in {"complete", "done", "error"}

\* a is a subsequence of b
RECURSIVE IsSubseq(_, _)
IsSubseq(a, b) ==
  IF a = <<>> THEN TRUE
  ELSE IF b = <<>> THEN FALSE
  ELSE IF Head(a) = Head(b) THEN IsSubseq(Tail(a), Tail(b))
  ELSE IsSubseq(a, Tail(b))

IsPrefix(a, b) == Len(a) <= Len(b) /\ SubSeq(b, 1, Len(a)) = a

\* The last k elements of seq
LastN(seq, k) == SubSeq(seq, Len(seq) - k + 1, Len(seq))

IsBareRecord(line)   == Len(line) = 2 /\ line[1] = "{" /\ line[2] \in BodyChars
IsFramedRecord(line) == Len(line) = 3 /\ line[1] = "d" /\ line[2] = "{"
                          /\ line[3] \in BodyChars

\* The events a producer text carries, in the order it carries them.
RECURSIVE EventsOfLines(_)
EventsOfLines(lines) ==
  IF lines = <<>> THEN <<>>
  ELSE LET l == Head(lines)
       IN (IF IsBareRecord(l) THEN <<EventOf(l[2])>>
           ELSE IF IsFramedRecord(l) THEN <<EventOf(l[3])>>
           ELSE <<>>) \o EventsOfLines(Tail(lines))

EmittedEvents(text) == EventsOfLines(SplitLines(text))

\* The producer events that reached the caller
SinkProducerEvents == SelectSeq(sink, FromProducer)

\* The events the route synthesized at the end of the session
RouteTerminals == SelectSeq(sink, RouteTerminal)

----------------------------------------------------------------------------
(* C1 *)

\* C1: whatever the producer stream, once the route has finished, the events
\* it wrote end with exactly one of: its `complete` immediately followed by
\* its `done`, or its `error`; these are the only terminal events the route
\* synthesizes, and it synthesizes none before it finishes.
TerminalEventExclusive ==
  /\ pc = "ended" =>
       \/ /\ settled = "resolved"
          /\ RouteTerminals = <<RouteEvent("complete", result), RouteEvent("done", <<>>)>>
          /\ Len(sink) >= 2 /\ LastN(sink, 2) = RouteTerminals
       \/ /\ settled = "rejected"
          /\ RouteTerminals = <<RouteEvent("error", rejectMsg)>>
          /\ Len(sink) >= 1 /\ LastN(sink, 1) = RouteTerminals
  /\ pc \in {"start", "screenshot", "opening", "streaming"} => RouteTerminals = <<>>

\* A session where the producer stream ended and the route wrote complete, done.
TerminalEventWitness ==
  /\ pc = "ended" /\ prodState = "ended" /\ settled = "resolved"
  /\ Len(sink) >= 2 /\ sink[Len(sink)].type = "done"
  /\ sink[Len(sink) - 1].type = "complete"

----------------------------------------------------------------------------
(* C2 *)

\* C2: in every session the sink receives at most one `complete` event, and
\* in a session that did not fail it receives exactly one `done` event, which
\* is its last event.
OneCompleteOneDone ==
  /\ Count(sink, IsComplete) <= 1
  /\ (pc = "ended" /\ settled = "resolved") =>
        /\ Count(sink, IsDone) = 1
        /\ sink[Len(sink)].type = "done"

----------------------------------------------------------------------------
(* C3 *)

\* The producer delivered an `error` event to the reader.
ProducerErrorDelivered == Count(onChunkCalls, IsError) >= 1

\* The inference request timed out before its response began.
RequestTimedOut == rejectMsg = <<"AI analysis failed", "timeout">>

\* C3: when the producer delivers an `error` event, the producer stream
\* fails at transport level or the inference request times out, the sink of
\* the finished session holds exactly one `error` event and no `complete`.
SingleErrorNoComplete ==
  (pc = "ended" /\ (ProducerErrorDelivered \/ prodState = "errored" \/ RequestTimedOut)) =>
     /\ Count(sink, IsError) = 1
     /\ Count(sink, IsComplete) = 0

----------------------------------------------------------------------------
(* C4 *)

\* The route has run to its end, by a return or by an exception that left it.
RouteFinished == pc \in {"ended", "crashed"}

\* C4: once the headers and the first status event are written, a route that
\* has finished has ended the response with a terminal event (`error`, or
\* `done` after `complete`) and has attempted no HTTP error response.
OpenedStreamTerminated ==
  (headersSent /\ RouteFinished) =>
     /\ resEnded
     /\ sink[Len(sink)].type \in {"error", "done"}
     /\ ~httpErrorAttempted

----------------------------------------------------------------------------
(* C5 *)

\* C5: no write is made to the response after it has ended, and in the
\* finished session every forwarded producer event precedes the terminal
\* events the route synthesized.
NoWriteAfterEnd ==
  /\ lateWrites = 0
  /\ pc = "ended" =>
       \A i, j \in 1..Len(sink) :
          (RouteTerminal(sink[i]) /\ FromProducer(sink[j])) => j < i

----------------------------------------------------------------------------
(* C6 *)

\* C6: the events handed to onChunk are, in order and each at most once,
\* events the producer emitted in the text delivered so far, and the producer
\* events in the sink are the first of them, in that order.
ForwardedInProducerOrder ==
  /\ IsSubseq(onChunkCalls, EmittedEvents(fed))
  /\ IsPrefix(SinkProducerEvents, onChunkCalls)

\* Two different producer events were forwarded, in the order emitted, in a
\* session where a chunk boundary fell inside a record.
ForwardedInOrderWitness ==
  /\ <<<<"{">>, FALSE>> \in aiLog
  /\ Len(SinkProducerEvents) >= 2
  /\ SinkProducerEvents[1] # SinkProducerEvents[2]

----------------------------------------------------------------------------
(* C7 *)

\* Every line of the text is a record the reader of this hop decodes.
ValidProducerText(text) ==
  LET lines == SplitLines(text)
  IN /\ lines[Len(lines)] = <<>>
     /\ \A i \in 1..(Len(lines) - 1) : IsBareRecord(lines[i])

\* C7: for a valid text, the events decoded from the chunks are the events
\* decoded when the whole text is fed as one chunk.
ChunkingInvariantDecode ==
  (prodState = "ended" /\ ValidProducerText(fed)) =>
     onChunkCalls = DataHandler(fed, FreshClient).calls

----------------------------------------------------------------------------
(* C9 *)

\* The text has a malformed line between two valid `partial` records and
\* nothing but such lines.
MalformedBetweenPartials(text) ==
  LET lines == SplitLines(text)
  IN /\ \A i \in 1..Len(lines) :
          lines[i] \in {<<"{", "P">>, <<"{", "Q">>, <<"x">>, <<>>}
     /\ \E i, j, k \in 1..Len(lines) :
          /\ i < j /\ j < k
          /\ IsBareRecord(lines[i]) /\ lines[j] = <<"x">> /\ IsBareRecord(lines[k])

RECURSIVE Contents(_)
Contents(events) ==
  IF events = <<>> THEN <<>>
  ELSE (IF Head(events).type = "partial" THEN Head(events).content ELSE <<>>)
         \o Contents(Tail(events))

\* C9: a producer stream with a malformed line between valid events, once it
\* has ended, has delivered every valid event to the sink and accumulated the
\* content of every valid partial event, and the malformed line produced no
\* error event.
MalformedLineTolerated ==
  (prodState = "ended" /\ MalformedBetweenPartials(fed)) =>
     /\ onChunkCalls = EmittedEvents(fed)
     /\ fullAnalysis = Contents(EmittedEvents(fed))
     /\ settled = "resolved"

----------------------------------------------------------------------------
(* C8 *)

\* C8: however the response text is cut into chunks, the events passed to
\* onChunk are those of the same text read as one chunk, and the buffer holds
\* the text after the last newline.
FeChunkingInvariant ==
  /\ feEvents = FeWhole(feFed).events
  /\ buffer = Remainder(SplitLines(feFed))

\* The only record of the text was cut by a chunk boundary, completed by a
\* later read and decoded.
FeChunkingWitness ==
  /\ feFed = <<"d", "{", "P", "n">>
  /\ feJoined = 1
  /\ feEvents = <<EventOf("P")>>

----------------------------------------------------------------------------
(* C10 *)

\* The text without its final newline
LineOf(text) == SubSeq(text, 1, Len(text) - 1)

----------------------------------------------------------------------------
(* C11 *)

\* The producer stream ended and the reader decoded no `error` event.
EndedWithoutError == prodState = "ended" /\ ~ProducerErrorDelivered

\* The reader decoded a producer `complete` event.
ProducerCompleteDelivered == Count(onChunkCalls, IsComplete) >= 1

\* C11 as claimed: whenever the producer stream ends without an error, the
\* finished route has emitted one `complete` event carrying the result of the
\* full accumulated text and then `done`, whatever the accumulated text.
CompleteAfterEveryCleanEnd ==
  (pc = "ended" /\ EndedWithoutError) =>
     RouteTerminals = <<RouteEvent("complete", fullAnalysis), RouteEvent("done", <<>>)>>

\* C11 as amended: when the producer stream ends without an error and no
\* producer `complete` event settled the session before, the finished route
\* has emitted `complete` carrying the result of the full accumulated text
\* and then `done` if that text is non-empty, and one `error` event ("No
\* analysis content received") and no `complete` if it is empty; after a
\* producer `complete` event it has emitted `complete` carrying the text
\* accumulated up to that event and then `done`.
CompleteAfterCleanEnd ==
  (pc = "ended" /\ EndedWithoutError) =>
     IF ProducerCompleteDelivered
       THEN /\ RouteTerminals = <<RouteEvent("complete", result), RouteEvent("done", <<>>)>>
            /\ IsPrefix(result, fullAnalysis)
       ELSE IF fullAnalysis # <<>>
         THEN RouteTerminals = <<RouteEvent("complete", fullAnalysis), RouteEvent("done", <<>>)>>
         ELSE RouteTerminals = <<RouteEvent("error", <<"No analysis content received">>)>>

\* The producer wrote lines, none of them partial content, and ended; the
\* route answered with the error event.
CompleteAfterCleanEndWitness ==
  /\ pc = "ended" /\ EndedWithoutError /\ ~ProducerCompleteDelivered
  /\ fed # <<>> /\ fullAnalysis = <<>>
  /\ RouteTerminals = <<RouteEvent("error", <<"No analysis content received">>)>>

----------------------------------------------------------------------------
(* C12 *)

\* C12: once the caller's connection has closed, the step in which the
\* orchestrator handles the next chunk of the in-flight inference stream
\* writes nothing to the sink and leaves the inference request cancelled.
CancelOnDisconnect ==
  [][(closedAt >= 0 /\ prodState = "open" /\ fed' # fed)
       => (sink' = sink /\ prodState' # "open")]_vars

----------------------------------------------------------------------------
(* C13 *)

Sections == {"strengths", "weaknesses", "recommendations"}

HeaderLines ==
  [strengths |-> <<"S">>, weaknesses |-> <<"W">>, recommendations |-> <<"R">>]

IsHeaderLine(line) == \E sec \in Sections : line = HeaderLines[sec]

\* A dash followed by a non-empty item text.
IsDashItem(line) ==
  line # <<>> /\ line[1] = "-" /\ Trim(Tail(line)) # <<>>

ItemText(line) == Trim(Tail(line))

\* The text consists of header lines and dash-prefixed items only.
HeadersAndItems(text) ==
  \A i \in 1..Len(SplitLines(text)) :
    IsHeaderLine(SplitLines(text)[i]) \/ IsDashItem(SplitLines(text)[i])

\* The items that stand under the header of section sec.
RECURSIVE ItemsUnder(_, _, _)
ItemsUnder(lines, sec, under) ==
  IF lines = <<>> THEN <<>>
  ELSE IF IsHeaderLine(Head(lines))
    THEN ItemsUnder(Tail(lines), sec, Head(lines) = HeaderLines[sec])
  ELSE IF under
    THEN <<ItemText(Head(lines))>> \o ItemsUnder(Tail(lines), sec, under)
  ELSE ItemsUnder(Tail(lines), sec, under)

ListsAreItemsUnderHeaders ==
  \A sec \in Sections :
    paOut[sec] = ItemsUnder(SplitLines(paText), sec, FALSE)

\* No item text holds a header word or the reasoning delimiter.
PlainItems(text) ==
  \A i \in 1..Len(SplitLines(text)) :
    IsDashItem(SplitLines(text)[i]) =>
      \A c \in {"S", "W", "R", "T"} : ~Includes(SplitLines(text)[i], c)

\* C13 as claimed: for a text of header lines and dash-prefixed items with
\* arbitrary non-empty item text, each list holds exactly the items under
\* its header, in order and with duplicates; items before the first header
\* are in no list.
ItemsExactForAnyItemText ==
  (paPc = "parsed" /\ HeadersAndItems(paText)) => ListsAreItemsUnderHeaders

\* C13 as amended: the same holds when no item text contains a header word
\* or the delimiter </think>; an item whose text contains a header word is
\* in no list.
ItemsExactForPlainItemText ==
  /\ (paPc = "parsed" /\ HeadersAndItems(paText) /\ PlainItems(paText))
        => ListsAreItemsUnderHeaders
  /\ (paPc = "parsed" /\ HeadersAndItems(paText)) =>
        \A sec \in Sections : \A i \in 1..Len(paOut[sec]) :
          \A c \in {"S", "W", "R"} : ~Includes(paOut[sec][i], c)

ItemsExactWitness ==
  /\ paPc = "parsed"
  /\ HeadersAndItems(paText) /\ PlainItems(paText)
  /\ IsDashItem(SplitLines(paText)[1])
  /\ paOut.strengths = << <<"a">>, <<"a">> >>
  /\ paOut.weaknesses = <<>> /\ paOut.recommendations = <<>>

----------------------------------------------------------------------------
(* C14 *)

\* What follows the last </think>, without surrounding blanks.
AfterReasoning(text) == Trim(AfterLastThink(text))

\* C14: for a text that contains </think>, the lists and `analysis` are
\* computed from what follows its last occurrence only, and `analysis` does
\* not contain the reasoning segment, also when the remainder is empty or
\* only whitespace.
ReasoningDiscarded ==
  (paPc = "parsed" /\ Includes(paText, "T")) =>
     /\ paOut.analysis = AfterReasoning(paText)
     /\ paOut = ParseLines(SplitLines(AfterReasoning(paText)), "",
                           [NoResult EXCEPT !.analysis = AfterReasoning(paText)])

----------------------------------------------------------------------------
(* C15 *)

\* No line holds a header word and no line begins with a list marker.
NoHeaderNoMarker(text) ==
  \A i \in 1..Len(SplitLines(text)) :
    /\ HeaderOf(SplitLines(text)[i]) = ""
    /\ ~IsListItem(Trim(SplitLines(text)[i]))

\* The input without its reasoning segment.
CleanedInput(text) ==
  IF Includes(text, "T") THEN AfterReasoning(text) ELSE text

\* C15: parseAnalysis returns for every input, and for a text with no
\* section header and no list marker it returns three empty lists and an
\* `analysis` equal to the cleaned input text.
ProseGivesEmptyLists ==
  /\ paPc \in {"input", "parsed"}
  /\ (paPc = "parsed" /\ NoHeaderNoMarker(paText)) =>
       /\ \A sec \in Sections : paOut[sec] = <<>>
       /\ paOut.analysis = CleanedInput(paText)

----------------------------------------------------------------------------
(* C16 *)

\* C16: decoding the record that encodes an event returns the event, and
\* the record is one line followed by a blank line even when a field
\* contains newline characters.
CodecRoundTrip ==
  /\ cdPc \in {"encoded", "decoded"} =>
       /\ Len(SplitLines(cdRecord)) = 3
       /\ SplitLines(cdRecord)[2] = <<>>
       /\ SplitLines(cdRecord)[3] = <<>>
  /\ cdPc = "decoded" => cdDecoded = <<cdEvent>>

CodecRoundTripWitness ==
  /\ cdPc = "decoded"
  /\ cdEvent.fields = << <<"\\", "l", "n">> >>
  /\ cdDecoded = <<cdEvent>>

----------------------------------------------------------------------------
(* C17 *)

\* The request is one the claim lists as invalid.
InvalidRequest(req) ==
  \/ req.url \notin {"http", "https"}
  \/ req.kind = "missing"
  \/ req.kind \in {"string", "array"} /\ req.len < MinContentLength
  \/ req.kind \in {"string", "array"} /\ req.len > MaxContentLength

\* C17: an invalid request that reaches the validation is answered 400
\* before any SSE header, screenshot or inference; a request with a valid
\* url and a content of exactly 10 or exactly 100000 characters is accepted.
InvalidRejectedWith400 ==
  /\ (vdPc \notin {"idle", "input", "limited"} /\ InvalidRequest(vdReq)) =>
        (vdStatus = 400 /\ ~vdStarted)
  /\ (/\ vdPc \notin {"idle", "input", "limited"}
      /\ vdReq.url \in {"http", "https"}
      /\ vdReq.kind = "string"
      /\ vdReq.len \in {MinContentLength, MaxContentLength}) =>
        vdPc \in {"handler", "started"}

----------------------------------------------------------------------------
(* C18 *)

\* The scrape failed or returned a non-OK status, or the extracted content
\* is missing or shorter than 10 characters.
ExtractionFailed ==
  /\ exScrape # NoScrape
  /\ exScrape.status # "ok" \/ exScrape.len < MinContentLength

\* C18: when content extraction fails, the request ends with a single
\* error outcome and no request is sent to the analysis endpoint or the
\* inference backend.
FailedExtractionEndsInError ==
  ExtractionFailed => (exErrors = 1 /\ exAnalysisRequests = 0)

----------------------------------------------------------------------------
(* C19 *)

ScreenshotFailedStatus ==
  StatusEvent("Screenshot capture failed, continuing with text analysis...")

\* The screenshot was requested, the capture is over and it failed.
ScreenshotFailed ==
  includeScreenshot /\ pc \notin {"start", "screenshot"} /\ ~screenshotData

\* C19: the screenshot collaborator is invoked only when includeScreenshot
\* is set; after a failed capture the route has written the status event
\* that notes the failure and no error event for it, has gone on to the
\* inference call with the content not augmented, and its complete event
\* carries no screenshot descriptor.
ScreenshotFailureNotFatal ==
  /\ (screenshotData \/ pc = "screenshot") => includeScreenshot
  /\ ScreenshotFailed =>
       /\ Len(sink) >= 3
       /\ sink[3] = ScreenshotFailedStatus
       /\ pc \in {"opening", "streaming", "ended"}
       /\ analysisContent = "plain"
       /\ ~completeShot

----------------------------------------------------------------------------
(* C20 *)

\* The host is a loopback or a private-network address.
PrivateHost(host) ==
  host \in {"localhost", "127.0.0.1", "127.0.0.2", "[::1]", "10.0.0.1",
            "192.168.0.1", "172.16.0.1"}

\* C20: on POST /scrape and in the screenshot step of POST
\* /api/analyze/stream, a url with a loopback or private-network host is
\* never fetched.
PrivateTargetNeverFetched ==
  (ftReq.route \in {"scrape", "stream"} /\ PrivateHost(ftReq.host)) => ~ftFetched

----------------------------------------------------------------------------
(* C21 *)

IsErrorEvent(e) == e.type = "error"

ErrorEventRead == Count(feEvents, IsErrorEvent) >= 1

FirstErrorMessage ==
  feEvents[CHOOSE i \in 1..Len(feEvents) :
             IsErrorEvent(feEvents[i])
             /\ \A k \in 1..(i-1) : ~IsErrorEvent(feEvents[k])].content

\* C21: when the read loop received an error event, the page shows that
\* event's message verbatim as its error and shows no result.
ErrorEventShownVerbatim ==
  (fePc # "reading" /\ ErrorEventRead) =>
     (uiError = FirstErrorMessage /\ ~uiResult)

----------------------------------------------------------------------------
(* C22 *)

\* Length of the marker a list-item line begins with: a dash, or digits
\* and the dot that follows them.
MarkerLength(line) ==
  IF line[1] = "-" THEN 1
  ELSE 1 + CHOOSE k \in 1..(Len(line) - 1) :
             /\ \A i \in 1..k : line[i] = "1"
             /\ line[k+1] = "."

\* The line without its whole marker and the whitespace after it.
WithoutMarker(line) == Trim(SubSeq(line, MarkerLength(line) + 1, Len(line)))

\* The items of the list-item lines, a line that is only a marker giving none.
RECURSIVE ItemsWithoutMarkers(_)
ItemsWithoutMarkers(lines) ==
  IF lines = <<>> THEN <<>>
  ELSE LET line == Trim(Head(lines))
       IN  (IF IsListItem(line) /\ WithoutMarker(line) # <<>>
              THEN <<WithoutMarker(line)>> ELSE <<>>)
           \o ItemsWithoutMarkers(Tail(lines))

\* The text is the header of the strengths followed by lines that hold no
\* header word and no delimiter.
StrengthsThenLines(text) ==
  /\ ~Includes(text, "T")
  /\ Head(SplitLines(text)) = <<"S">>
  /\ \A i \in 2..Len(SplitLines(text)) : HeaderOf(SplitLines(text)[i]) = ""

\* C22: the item stored for a list-item line is the line without its whole
\* marker (a dash, or digits and a dot) and the whitespace after it; a line
\* that is only a marker adds no item.
WholeMarkerStripped ==
  (paPc = "parsed" /\ StrengthsThenLines(paText)) =>
     paOut.strengths = ItemsWithoutMarkers(Tail(SplitLines(paText)))

----------------------------------------------------------------------------
(* C23 *)

\* The first header word a line contains, in the order strength, weakness,
\* recommendation; "" when it contains none.
FirstKeywordSection(line) ==
  IF \E i \in 1..Len(line) : line[i] = "S" THEN "strengths"
  ELSE IF \E i \in 1..Len(line) : line[i] = "W" THEN "weaknesses"
  ELSE IF \E i \in 1..Len(line) : line[i] = "R" THEN "recommendations"
  ELSE ""

\* The items of section sec when every line with a header word only sets
\* the current section.
RECURSIVE ItemsBySection(_, _, _)
ItemsBySection(lines, sec, cur) ==
  IF lines = <<>> THEN <<>>
  ELSE LET line == Trim(Head(lines))
       IN  IF FirstKeywordSection(line) # ""
             THEN ItemsBySection(Tail(lines), sec, FirstKeywordSection(line))
           ELSE (IF cur = sec /\ IsListItem(line) /\ StripMarker(line) # <<>>
                   THEN <<StripMarker(line)>> ELSE <<>>)
                \o ItemsBySection(Tail(lines), sec, cur)

\* C23: a line that contains a header word sets the current section, the
\* first match in the order strength, weakness, recommendation, and is in
\* no list, even when it starts with a list marker.
KeywordLineIsHeader ==
  paPc = "parsed" =>
    \A sec \in Sections :
      paOut[sec] = ItemsBySection(SplitLines(paOut.analysis), sec, "")

KeywordLineIsHeaderWitness ==
  /\ paPc = "parsed"
  /\ paText = <<"S", "n", "-", "R", "W", "n", "-", "b">>
  /\ paOut.weaknesses = << <<"b">> >>
  /\ paOut.strengths = <<>> /\ paOut.recommendations = <<>>

----------------------------------------------------------------------------
(* C24 *)

\* The events decoded from the lines the data handler accepted all reached
\* the sink.
DecodedAllInSink == SinkProducerEvents = onChunkCalls

\* The accumulated text is the content of the forwarded partial events.
AccumulatedIsForwarded == fullAnalysis = Contents(onChunkCalls)

\* C24: every producer line that decodes is forwarded to the sink, the
\* accumulated text is the content, in arrival order, of exactly the partial
\* events forwarded, and the text handed to parseAnalysis when the promise
\* resolves is the text accumulated up to that point.
ForwardedAndAccumulated ==
  /\ [](DecodedAllInSink /\ AccumulatedIsForwarded)
  /\ [][(settled = "pending" /\ settled' = "resolved")
          => result' = Contents(onChunkCalls')]_vars

----------------------------------------------------------------------------
(* Two requests of POST /api/analyze/stream served at the same time.  Each
   request has its own response, its own AIClient and its own call of
   analyzeContentStream, hence its own producer stream and its own local
   fullAnalysis.  An event carries the request whose producer or route
   made it; the content of a partial event of request r is the token r. *)

MaxChunks == 2

\* The fullAnalysis a call appends to: the let of its own invocation.
AccumulatorShared(r) ==
  CHOOSE a \in SessionIds : \A b \in SessionIds : a <= b

AccumulatorOf(r) == r

\* The for loop of the data handler of request r over the lines of a chunk,
\* from line i on; st holds the accumulators, the promises, the results and
\* the sinks.  onChunk writes to the response of r, and nothing is written
\* once it ended.  The loop returns at a complete and at an error line.
RECURSIVE SessionLines(_, _, _, _)
SessionLines(st, r, chunk, i) ==
  IF i > Len(chunk) THEN st
  ELSE
    LET type == chunk[i]
        a == AccumulatorOf(r)
        written ==
          IF ssEnded[r] THEN st
          ELSE [st EXCEPT !.sink[r] = Append(@, [from |-> r, type |-> type])]
    IN  CASE type = "partial" ->
               SessionLines([written EXCEPT !.full[a] = Append(@, r)],
                            r, chunk, i + 1)
          [] type = "complete" ->
               IF written.settled[r] = "pending"
               THEN [written EXCEPT !.settled[r] = "resolved",
                                    !.result[r] = written.full[a]]
               ELSE written
          [] OTHER ->
               IF written.settled[r] = "pending"
               THEN [written EXCEPT !.settled[r] = "rejected"]
               ELSE written

\* The producer of request r delivers a chunk; its lines that decode are
\* partial, complete and error records.
SessionData(r) ==
  /\ ~ssProdEnded[r]
  /\ ssSent[r] < MaxChunks
  /\ \E chunk \in {<<"partial">>, <<"complete">>, <<"error">>,
                   <<"partial", "partial">>, <<"partial", "complete">>,
                   <<"complete", "partial">>} :
       LET st == SessionLines([full |-> ssFull, settled |-> ssSettled,
                               result |-> ssResult, sink |-> ssSink],
                              r, chunk, 1)
       IN  /\ ssFull' = st.full
           /\ ssSettled' = st.settled
           /\ ssResult' = st.result
           /\ ssSink' = st.sink
  /\ ssSent' = [ssSent EXCEPT ![r] = @ + 1]
  /\ UNCHANGED <<ssProdEnded, ssEnded, browserVars, sanitizeVars,
                 metadataVars>>
  /\ UNCHANGED <<relayVars, feVars, parseVars, codecVars, validateVars,
                 extractVars, fetchVars>>

\* The producer stream of request r ends.
SessionProducerEnd(r) ==
  /\ ~ssProdEnded[r]
  /\ ssProdEnded' = [ssProdEnded EXCEPT ![r] = TRUE]
  /\ IF ssSettled[r] # "pending"
       THEN UNCHANGED <<ssSettled, ssResult>>
       ELSE IF ssFull[AccumulatorOf(r)] # <<>>
       THEN /\ ssSettled' = [ssSettled EXCEPT ![r] = "resolved"]
            /\ ssResult' = [ssResult EXCEPT ![r] = ssFull[AccumulatorOf(r)]]
       ELSE /\ ssSettled' = [ssSettled EXCEPT ![r] = "rejected"]
            /\ UNCHANGED ssResult
  /\ UNCHANGED <<ssSent, ssFull, ssSink, ssEnded, browserVars, sanitizeVars,
                 metadataVars>>
  /\ UNCHANGED <<relayVars, feVars, parseVars, codecVars, validateVars,
                 extractVars, fetchVars>>

\* The route of request r resumes after its await: it writes its complete
\* and done events, or its error event, and ends its response.
SessionRouteResume(r) ==
  /\ ssSettled[r] # "pending"
  /\ ~ssEnded[r]
  /\ ssSink' =
       [ssSink EXCEPT ![r] =
          IF ssSettled[r] = "resolved"
          THEN @ \o <<[from |-> r, type |-> "route-complete"],
                      [from |-> r, type |-> "route-done"]>>
          ELSE Append(@, [from |-> r, type |-> "route-error"])]
  /\ ssEnded' = [ssEnded EXCEPT ![r] = TRUE]
  /\ UNCHANGED <<ssSent, ssProdEnded, ssFull, ssSettled, ssResult,
                 browserVars, sanitizeVars, metadataVars>>
  /\ UNCHANGED <<relayVars, feVars, parseVars, codecVars, validateVars,
                 extractVars, fetchVars>>

NextSessions ==
  \E r \in SessionIds :
    SessionData(r) \/ SessionProducerEnd(r) \/ SessionRouteResume(r)

SpecSessions == Init /\ [][NextSessions]_vars

\* C25: with two streaming requests in flight and any interleaving of their
\* producers' chunks, the response of a request receives only events of its
\* own producer and route, and the analysis of its result is built only from
\* the partial events of its own producer.
SessionsIsolated ==
  \A r \in SessionIds :
    /\ \A i \in DOMAIN ssSink[r] : ssSink[r][i].from = r
    /\ \A i \in DOMAIN ssResult[r] : ssResult[r][i] = r
    /\ \A i \in DOMAIN ssFull[r] : ssFull[r][i] = r

\* Request 2 resolved with a non-empty analysis while request 1 was in the
\* middle of its stream.
SessionsIsolatedWitness ==
  /\ ssSettled[2] = "resolved" /\ ssResult[2] # <<>>
  /\ ssSettled[1] = "pending" /\ ssFull[1] # <<>> /\ ssSink[1] # <<>>
  /\ ssProdEnded = [r \in SessionIds |-> FALSE]

----------------------------------------------------------------------------
(* ScreenshotService: the static browser shared by captureScreenshot and
   healthCheck.  getBrowser tests the static field, and awaits
   puppeteer.launch when it is null; other calls run during that await.
   A browser is named by the number of the launch that produced it. *)

\* getBrowser up to its await: the field is tested and, when it is null,
\* puppeteer.launch is called.
GetBrowserBegin(c, kind) ==
  /\ bwPc[c] = "idle"
  /\ bwKind' = [bwKind EXCEPT ![c] = kind]
  /\ IF bwBrowser = 0
       THEN /\ bwLaunches' = bwLaunches + 1
            /\ bwMine' = [bwMine EXCEPT ![c] = bwLaunches + 1]
            /\ bwPc' = [bwPc EXCEPT ![c] = "launching"]
            /\ UNCHANGED bwUsed
       ELSE /\ bwUsed' = [bwUsed EXCEPT ![c] = bwBrowser]
            /\ bwPc' = [bwPc EXCEPT ![c] = "ready"]
            /\ UNCHANGED <<bwLaunches, bwMine>>
  /\ UNCHANGED <<bwBrowser, bwAlive, sessionVars, sanitizeVars, metadataVars>>
  /\ UNCHANGED <<relayVars, feVars, parseVars, codecVars, validateVars,
                 extractVars, fetchVars>>

\* The launch of call c resolves: the field is assigned and returned.
LaunchResolve(c) ==
  /\ bwPc[c] = "launching"
  /\ bwBrowser' = bwMine[c]
  /\ bwAlive' = bwAlive \cup {bwMine[c]}
  /\ bwUsed' = [bwUsed EXCEPT ![c] = bwMine[c]]
  /\ bwPc' = [bwPc EXCEPT ![c] = "ready"]
  /\ UNCHANGED <<bwKind, bwLaunches, bwMine, sessionVars, sanitizeVars,
                 metadataVars>>
  /\ UNCHANGED <<relayVars, feVars, parseVars, codecVars, validateVars,
                 extractVars, fetchVars>>

\* The launch of call c rejects: captureScreenshot throws, healthCheck
\* returns false.
LaunchReject(c) ==
  /\ bwPc[c] = "launching"
  /\ bwPc' = [bwPc EXCEPT ![c] = "failed"]
  /\ UNCHANGED <<bwKind, bwBrowser, bwLaunches, bwMine, bwUsed, bwAlive,
                 sessionVars, sanitizeVars, metadataVars>>
  /\ UNCHANGED <<relayVars, feVars, parseVars, codecVars, validateVars,
                 extractVars, fetchVars>>

\* The call opens its page on the browser it was given, works and closes
\* the page.
PageDone(c) ==
  /\ bwPc[c] = "ready"
  /\ bwPc' = [bwPc EXCEPT ![c] = "done"]
  /\ UNCHANGED <<bwKind, bwBrowser, bwLaunches, bwMine, bwUsed, bwAlive,
                 sessionVars, sanitizeVars, metadataVars>>
  /\ UNCHANGED <<relayVars, feVars, parseVars, codecVars, validateVars,
                 extractVars, fetchVars>>

NextBrowser ==
  \E c \in 1 .. MaxCallers :
    \/ \E kind \in {"capture", "health"} : GetBrowserBegin(c, kind)
    \/ LaunchResolve(c)
    \/ LaunchReject(c)
    \/ PageDone(c)

SpecBrowser == Init /\ [][NextBrowser]_vars

\* C27: with calls of captureScreenshot and healthCheck interleaved and no
\* cleanup, at most one browser is launched, every call uses that browser,
\* and no launched browser is left without a reference in the static field.
OneSharedBrowser ==
  /\ Cardinality(bwAlive) <= 1
  /\ \A c \in 1 .. MaxCallers : bwUsed[c] # 0 => bwUsed[c] = bwBrowser
  /\ \A b \in bwAlive : b = bwBrowser

----------------------------------------------------------------------------
(* C26 *)

\* C26: when the response stream has ended, the events passed to onChunk, the
\* lines examined and the final result are those of the newline-terminated
\* lines of the response alone: the fragment left in the buffer is not
\* decoded, not passed to onChunk and not used as the result.
FragmentDiscarded ==
  fePc # "reading" =>
    LET whole == FeWhole(feFed)
    IN  /\ feEvents = whole.events
        /\ feLog = whole.log
        /\ finalResult = whole.final
        /\ uiResult = whole.final

\* The stream ended with a complete record that lacks its newline in the
\* buffer: nothing was decoded and the call threw.
FragmentDiscardedWitness ==
  /\ fePc = "threw"
  /\ buffer = <<"d", "{", "R">>
  /\ feFed = <<"d", "{", "P", "n", "d", "{", "R">>
  /\ feEvents = <<EventOf("P")>>
  /\ ~finalResult

----------------------------------------------------------------------------
(* validateAnalysisInput on a string content with a valid url: the length
   tests, the five replace calls and the assignment to req.body.content;
   then the route, which hands req.body.content to the inference backend.
   A text is a sequence of characters. *)

MaxPieces == 3

\* javascript:, data: and vbscript:, in the order of their replace calls
Schemes ==
  << <<"j", "a", "v", "a", "s", "c", "r", "i", "p", "t", ":">>,
     <<"d", "a", "t", "a", ":">>,
     <<"v", "b", "s", "c", "r", "i", "p", "t", ":">> >>

\* <script ... </script> and <iframe ... </iframe>, in the order of their
\* replace calls
Tags ==
  << [open |-> <<"<", "s", "c", "r", "i", "p", "t">>,
      close |-> <<"<", "/", "s", "c", "r", "i", "p", "t", ">">>],
     [open |-> <<"<", "i", "f", "r", "a", "m", "e">>,
      close |-> <<"<", "/", "i", "f", "r", "a", "m", "e", ">">>] >>

\* The pieces the contents are made of.
ContentPieces ==
  {Schemes[1], Schemes[2], Schemes[3],
   <<"j", "a", "v", "a">>, <<"s", "c", "r", "i", "p", "t", ":">>,
   <<"D", "A", "T", "A", ":">>,
   Tags[1].open \o <<">">>, Tags[1].close,
   Tags[2].open \o <<">">>, Tags[2].close}

RECURSIVE PiecesJoined(_)
PiecesJoined(n) ==
  IF n = 0 THEN {<<>>}
  ELSE LET shorter == PiecesJoined(n - 1)
       IN  shorter \cup {t \o q : t \in shorter, q \in ContentPieces}

SanitizeRequests ==
  { [route |-> r, content |-> [text |-> t, pad |-> n]] :
      r \in {"analyze", "stream"}, t \in PiecesJoined(MaxPieces),
      n \in {0, MinContentLength, MaxContentLength - Len(Schemes[1]),
             MaxContentLength} }

\* The i flag: letters are compared without regard to case.
Lower(c) ==
  CASE c = "D" -> "d" [] c = "A" -> "a" [] c = "T" -> "t" [] OTHER -> c

MatchesAt(text, i, pattern) ==
  /\ i + Len(pattern) - 1 <= Len(text)
  /\ \A k \in 1 .. Len(pattern) : Lower(text[i + k - 1]) = pattern[k]

\* The first position from i on where pattern matches, 0 when there is none.
FirstMatch(text, i, pattern) ==
  IF \E j \in i .. Len(text) : MatchesAt(text, j, pattern)
  THEN CHOOSE j \in i .. Len(text) :
         /\ MatchesAt(text, j, pattern)
         /\ \A k \in i .. j - 1 : ~MatchesAt(text, k, pattern)
  ELSE 0

\* replace(/<tag\b[^<]*(?:(?!<\/tag>)<[^<]*)*<\/tag>/gi, ''): one pass from
\* left to right; a match runs from an opening tag, whose name ends at a
\* character that is not a word character, to the first closing tag after it.
RECURSIVE RemoveBlocks(_, _, _)
RemoveBlocks(text, i, tag) ==
  IF i > Len(text) THEN <<>>
  ELSE
    LET after == i + Len(tag.open)
        end == IF /\ MatchesAt(text, i, tag.open)
                  /\ after <= Len(text)
                  /\ text[after] \in {"<", ">", "/", ":"}
               THEN FirstMatch(text, after, tag.close)
               ELSE 0
    IN  IF end # 0
        THEN RemoveBlocks(text, end + Len(tag.close), tag)
        ELSE <<text[i]>> \o RemoveBlocks(text, i + 1, tag)

\* replace(/pattern/gi, ''): one pass from left to right.
RECURSIVE RemoveAll(_, _, _)
RemoveAll(text, i, pattern) ==
  IF i > Len(text) THEN <<>>
  ELSE IF MatchesAt(text, i, pattern)
  THEN RemoveAll(text, i + Len(pattern), pattern)
  ELSE <<text[i]>> \o RemoveAll(text, i + 1, pattern)

\* const sanitizedContent = content.replace(...) five times
sanitizedContent(content) ==
  LET noScript == RemoveBlocks(content.text, 1, Tags[1])
      noIframe == RemoveBlocks(noScript, 1, Tags[2])
      noJavascript == RemoveAll(noIframe, 1, Schemes[1])
      noData == RemoveAll(noJavascript, 1, Schemes[2])
  IN  [text |-> RemoveAll(noData, 1, Schemes[3]), pad |-> content.pad]

\* The middleware receives a request: an empty content and a content of a
\* length outside the limits are answered 400; any other is sanitized and
\* stored.
SanitizeInput ==
  /\ szPc = "idle"
  /\ \E req \in SanitizeRequests :
       LET length == Len(req.content.text) + req.content.pad
       IN  /\ szReq' = req
           /\ IF \/ length = 0
                 \/ length < MinContentLength
                 \/ length > MaxContentLength
              THEN /\ szPc' = "rejected"
                   /\ UNCHANGED szStored
              ELSE /\ szPc' = "stored"
                   /\ szStored' = sanitizedContent(req.content)
  /\ UNCHANGED <<szSent, sessionVars, browserVars, metadataVars>>
  /\ UNCHANGED <<relayVars, feVars, parseVars, codecVars, validateVars,
                 extractVars, fetchVars>>

\* The route takes content from req.body and calls the inference backend
\* with it.
SanitizeRouteSend ==
  /\ szPc = "stored"
  /\ szPc' = "sent"
  /\ szSent' = szStored
  /\ UNCHANGED <<szReq, szStored, sessionVars, browserVars, metadataVars>>
  /\ UNCHANGED <<relayVars, feVars, parseVars, codecVars, validateVars,
                 extractVars, fetchVars>>

NextSanitize == SanitizeInput \/ SanitizeRouteSend

SpecSanitize == Init /\ [][NextSanitize]_vars

\* C28: the content the routes pass to the inference backend has a length
\* of at least 10 and at most 100000.
SentLengthWithinLimits ==
  szPc = "sent" =>
    /\ Len(szSent.text) + szSent.pad >= MinContentLength
    /\ Len(szSent.text) + szSent.pad <= MaxContentLength

\* C30: the content stored for an accepted request holds no occurrence, in
\* any letter case, of javascript:, data: or vbscript:, and sanitizing it
\* again changes nothing.
StoredCleanAndStable ==
  szPc \in {"stored", "sent"} =>
    /\ \A n \in DOMAIN Schemes : FirstMatch(szStored.text, 1, Schemes[n]) = 0
    /\ sanitizedContent(szStored) = szStored

----------------------------------------------------------------------------
(* The metadata object of the result: of the response of POST /api/analyze
   and of the complete event of POST /api/analyze/stream.  Two requests are
   answered that have the same route, content and includeScreenshot and meet
   the same clock, and differ at most in the metadata member of the body. *)

\* The metadata a client may send: none or an empty object, a member of its
\* own, or a member with the name of one the server computes.
ClientMetadatas ==
  {<<>>,
   [k \in {"title"} |-> "page"],
   [k \in {"source"} |-> "spoofed"],
   [k \in {"contentLength"} |-> "0"],
   [k \in {"analyzedAt"} |-> "1970"],
   [k \in {"includeScreenshot"} |-> "true"]}

\* The members the route computes; includeScreenshot is a member on the
\* stream route only.
ComputedMetadata(server) ==
  [k \in {"contentLength", "analyzedAt", "source"}
           \cup (IF server.route = "stream" THEN {"includeScreenshot"}
                 ELSE {}) |->
     CASE k = "contentLength" -> server.length
       [] k = "analyzedAt" -> server.now
       [] k = "source" -> "client-extraction"
       [] OTHER -> IF server.includeScreenshot = "true" THEN "true"
                   ELSE "false"]

\* metadata: { contentLength, analyzedAt, source, ..., ...metadata }: a
\* member of the spread object replaces the member with the same name.
ResultMetadata(server, metadata) ==
  LET computed == ComputedMetadata(server)
  IN  [k \in DOMAIN computed \cup DOMAIN metadata |->
         IF k \in DOMAIN metadata THEN metadata[k] ELSE computed[k]]

\* The route answers request i, which has the route, the content and the
\* flag of the other request and meets the same clock.
MetadataAnswer(i) ==
  /\ mdPc[i] = "idle"
  /\ \E server \in [route : {"analyze", "stream"}, length : {"10", "11"},
                    includeScreenshot : {"absent", "false", "true"},
                    now : {"2024", "2025"}],
        metadata \in ClientMetadatas :
       /\ (\E j \in 1 .. 2 : mdPc[j] # "idle") => server = mdServer
       /\ mdServer' = server
       /\ mdClient' = [mdClient EXCEPT ![i] = metadata]
       /\ mdOut' = [mdOut EXCEPT ![i] = ResultMetadata(server, metadata)]
  /\ mdPc' = [mdPc EXCEPT ![i] = "answered"]
  /\ UNCHANGED <<sessionVars, browserVars, sanitizeVars>>
  /\ UNCHANGED <<relayVars, feVars, parseVars, codecVars, validateVars,
                 extractVars, fetchVars>>

NextMetadata == \E i \in 1 .. 2 : MetadataAnswer(i)

SpecMetadata == Init /\ [][NextMetadata]_vars

\* C29: two requests that differ only in the metadata the client supplied
\* get the same contentLength, analyzedAt, source and includeScreenshot in
\* the metadata of their results.
ServerMetadataIndependent ==
  (\A i \in 1 .. 2 : mdPc[i] = "answered") =>
    \A k \in DOMAIN ComputedMetadata(mdServer) :
      /\ k \in DOMAIN mdOut[1] /\ k \in DOMAIN mdOut[2]
      /\ mdOut[1][k] = mdOut[2][k]

====
